---- MODULE Spec2Model ----
(***************************************************************************)
(* Model of the GDPR compliance-audit engine of server.js: the GDPRChecker *)
(* class (one shared, lazily launched browser; checkUrl with its retry     *)
(* recursion; the detectors; calculateScore) driven by concurrent          *)
(* POST /api/check requests.                                               *)
(*                                                                         *)
(* Every `await` of checkUrl on an operation of the browser, the network   *)
(* or a timer is a point where other requests and page events interleave;  *)
(* the code between two such points runs to completion (Node's single      *)
(* thread), so it is one action.                                           *)
(***************************************************************************)
EXTENDS Integers, Sequences, FiniteSets, TLC

\* ------------------------------------------------------------------ bounds
\* Failures of the environment (a launch, page operation or navigation that
\* fails) and page events (requests, Set-Cookie responses) in one run, with
\* two concurrent requests and with a single one.
SharedFaults == 1
SharedEvents == 2
SoloFaults == 3
SoloEvents == 1
CloseFaults == 1
CloseEvents == 1

\* ------------------------------------------------------- program constants
\* constructor: this.maxRetries = 2
maxRetries == 2

\* The checkUrl invocations that may be in flight together (two clients of
\* POST /api/check).
Audits == {1, 2}

None == "none"

\* ---------------------------------------------------------------- the web
\* URLs handed to checkUrl; `new URL(url)` is modelled by the table ParseUrl.
Urls == {"https://shop.example/", "http://blog.example/",
         "ftp://files.example/", "shop.example"}

\* new URL(url): throws for a string that is no absolute URL, else yields
\* the protocol and the hostname.
ParseUrl(u) ==
  CASE u = "https://shop.example/" -> [ok |-> TRUE,  protocol |-> "https:", hostname |-> "shop.example"]
    [] u = "http://blog.example/"  -> [ok |-> TRUE,  protocol |-> "http:",  hostname |-> "blog.example"]
    [] u = "ftp://files.example/"  -> [ok |-> TRUE,  protocol |-> "ftp:",   hostname |-> "files.example"]
    [] OTHER                       -> [ok |-> FALSE, protocol |-> None,     hostname |-> None]

Hosts == {"shop.example", "blog.example"}

\* What a detector's part of the document does to the detector:
\*   absent   no evidence, the detector runs through
\*   present  evidence, the detector runs through
\*   throws   the HTML query throws after evidence has been recorded
\* (A query that throws before any evidence is recorded leaves the result
\* of an absent part: found = false, score = 0.)
DomVals == {"absent", "present", "throws"}
Dom == [banner : DomVals, privacy : DomVals, cookiePolicy : DomVals, contact : DomVals]

FullDom  == [banner |-> "present", privacy |-> "present",
             cookiePolicy |-> "present", contact |-> "present"]
EmptyDom == [banner |-> "absent", privacy |-> "absent",
             cookiePolicy |-> "absent", contact |-> "absent"]

\* What a page of each site does while it loads: the requests it sends and
\* the cookies its responses set.
Site ==
  [h \in Hosts |->
     IF h = "shop.example"
     THEN [requests |-> {"https://www.google-analytics.com/collect"}, setCookie |-> {"_ga"}]
     ELSE [requests |-> {"http://blog.example/app.js"}, setCookie |-> {"session_id"}]]

VARIABLES
  inbox,     \* the URLs of the POST /api/check requests still to arrive
  web,       \* what the sites may serve: "plain" or "any"
  faults,    \* failures the environment may still produce
  events,    \* page events that may still happen
  browser,   \* this.browser: 0 is null, else the handle of a browser process
  launched,  \* number of browser processes launched so far (handles 1..launched)
  running,   \* browser processes launched and not closed
  pages,     \* pages opened so far, in order; a page's id is its index
  jar,       \* cookie store of each browser process: set of [host, name]
  aud,       \* per request slot: the locals of its checkUrl invocation
  closers,   \* per shutdown signal: the locals of its checker.close() invocation
  calc       \* a call of one method of the checker on its own (calculateScore,
             \* checkPreConsentViolations, ...): its arguments and its result

vars == <<inbox, web, faults, events, browser, launched, running, pages, jar, aud, calc,
          closers>>

\* The time `new Date()` yields in checkSSL, and the expiry dates a
\* certificate may carry: before it, at it and after it.
Now == 1
Expiries == {Now - 1, Now, Now + 1}

\* socket.getPeerCertificate(): an object with valid_to, or one without.
Certificate(h, expiry) == [subject |-> h, valid_to |-> expiry]
EmptyCertificate == [subject |-> None]

\* No connection was opened.
NoConnection == [event |-> "none"]

\* How a TLS connection to port 443 of a host may end: with the
\* secureConnect callback and a peer certificate, or with a socket error.
TlsOutcomes(h) ==
  {[event |-> "error", message |-> "ECONNREFUSED"],
   [event |-> "secureConnect", cert |-> EmptyCertificate]}
  \cup {[event |-> "secureConnect", cert |-> Certificate(h, t)] : t \in Expiries}
Certificates(h) ==
  IF web = "any" THEN TlsOutcomes(h)
  ELSE {[event |-> "secureConnect", cert |-> Certificate(h, Now + 1)]}

\* The documents page.content() may return for a page of host h.
Documents(h) ==
  IF web = "any" THEN Dom
  ELSE IF h = "shop.example" THEN {FullDom} ELSE {EmptyDom}

\* An Error: its message, and (history) the attempt it was thrown in.
NoError == [message |-> None, thrownIn |-> 0]
Error(msg, r) == [message |-> msg, thrownIn |-> r.retryCount + 1]

\* The locals of one checkUrl invocation (and of its recursive retries), and
\* two histories of it: `failed`, the number of its attempts that threw, and
\* `thrown`, the detectors of the current attempt whose analysis threw;
\* `connection`, how the TLS connection of its checkSSL ended.
NoDom == [banner |-> None, privacy |-> None, cookiePolicy |-> None, contact |-> None]

IdleAudit ==
  [pc |-> "idle", url |-> None, retryCount |-> 0, browser |-> 0, page |-> 0,
   networkRequests |-> <<>>, cookies |-> <<>>, error |-> NoError,
   content |-> NoDom, preConsentCookies |-> {},
   results |-> <<>>, report |-> <<>>,
   failed |-> 0, thrown |-> {}, connection |-> NoConnection]

\* ------------------------------------------------------------- detectors
\* A detector whose HTML query throws lands in its own catch block.
Threw(v) == v = "throws"
\* The evidence recorded before the detector ran through or threw.
Evidence(v) == v \in {"present", "throws"}

checkCookieBanner(dom) ==
  [found |-> Evidence(dom.banner),
   score |-> IF Threw(dom.banner) THEN 0 ELSE IF Evidence(dom.banner) THEN 100 ELSE 0]

checkPrivacyPolicy(dom) ==
  [found |-> Evidence(dom.privacy),
   score |-> IF Threw(dom.privacy) THEN 0 ELSE IF Evidence(dom.privacy) THEN 100 ELSE 0]

\* checkCookiePolicy as it would be if a found policy scored 100, as the
\* privacy policy does.
checkCookiePolicyFullMarks(dom) ==
  [found |-> Evidence(dom.cookiePolicy),
   score |-> IF Threw(dom.cookiePolicy) THEN 0 ELSE IF Evidence(dom.cookiePolicy) THEN 100 ELSE 0]

checkCookiePolicy(dom) ==
  [found |-> Evidence(dom.cookiePolicy),
   score |-> IF Threw(dom.cookiePolicy) THEN 0 ELSE IF Evidence(dom.cookiePolicy) THEN 80 ELSE 0]

checkContactInfo(dom) ==
  [found |-> Evidence(dom.contact),
   score |-> IF Threw(dom.contact) THEN 0 ELSE IF Evidence(dom.contact) THEN 80 ELSE 0]

\* checkSSL as it would be if it returned the constant `valid` that the
\* callback computes and never uses (socket.authorized || cert.valid_to).
checkSSLAuthorized(url, connection, now) ==
  IF ~ParseUrl(url).ok
  THEN [valid |-> FALSE, details |-> <<"Vynimka pri kontrole SSL", "Invalid URL">>]
  ELSE IF ParseUrl(url).protocol # "https:"
  THEN [valid |-> FALSE, details |-> <<"Stranka nepouziva HTTPS protokol.">>]
  ELSE IF connection.event = "error"
  THEN [valid |-> FALSE, details |-> <<"Chyba pri kontrole SSL", connection.message>>]
  ELSE IF "valid_to" \in DOMAIN connection.cert
  THEN [valid |-> TRUE, details |-> <<"Platny do", connection.cert.valid_to>>]
  ELSE [valid |-> FALSE, details |-> <<"Certifikat nebol najdeny alebo je neplatny.">>]

\* checkSSL(url), given how the TLS connection to port 443 ends (it is not
\* opened for a URL that is not HTTPS) and the time at its end. The details
\* are the message's fixed text and what is interpolated into it.
checkSSL(url, connection, now) ==
  IF ~ParseUrl(url).ok
  THEN [valid |-> FALSE, details |-> <<"Vynimka pri kontrole SSL", "Invalid URL">>]
  ELSE IF ParseUrl(url).protocol # "https:"
  THEN [valid |-> FALSE, details |-> <<"Stranka nepouziva HTTPS protokol.">>]
  ELSE IF connection.event = "error"
  THEN [valid |-> FALSE, details |-> <<"Chyba pri kontrole SSL", connection.message>>]
  ELSE IF "valid_to" \in DOMAIN connection.cert
  THEN LET expiry == connection.cert.valid_to
       IN [valid |-> expiry > now,
           details |-> IF expiry > now THEN <<"Platny do", expiry>>
                       ELSE <<"Certifikat expiroval", expiry>>]
  ELSE [valid |-> FALSE, details |-> <<"Certifikat nebol najdeny alebo je neplatny.">>]

\* checkCookies(page): `ok` is whether its page.cookies() resolves.
CookieCountScore(n) ==
  IF n = 0 THEN 100 ELSE IF n <= 3 THEN 80 ELSE IF n <= 10 THEN 60 ELSE 30

checkCookies(ok, pageCookies) ==
  IF ok
  THEN [count |-> Cardinality(pageCookies), cookies |-> pageCookies,
        score |-> CookieCountScore(Cardinality(pageCookies))]
  ELSE [count |-> 0, cookies |-> {}, score |-> 50]

\* ------------------------------------------------- strings of the model
\* String.prototype.toLowerCase on the strings of the model: every other
\* string of the model is already in lower case.
Lower(s) ==
  CASE s = "PHPSESSID"           -> "phpsessid"
    [] s = "_hjIncludedInSample" -> "_hjincludedinsample"
    [] s = "VISITOR_INFO1_LIVE"  -> "visitor_info1_live"
    [] s = "YSC"                 -> "ysc"
    [] s = "https://cdn.example/GTAG/js" -> "https://cdn.example/gtag/js"
    [] OTHER                     -> s

\* String.prototype.includes on the (lower-cased) strings of the model:
\* the pairs <<s, t>> with t a substring of s.
Substrings ==
  { <<"session_id", "session">>,
    <<"phpsessid", "phpsessid">>,
    <<"https://www.google-analytics.com/collect", "google-analytics.com">>,
    <<"https://cdn.example/gtag/js", "gtag">>,
    <<"https://www.facebook.com/tr/?id=1&dl=https://shop.example/?_ga=2.1", "facebook.com/tr">>,
    <<"https://www.facebook.com/tr/?id=1&dl=https://shop.example/?_ga=2.1", "_ga">> }
Includes(s, t) == <<s, t>> \in Substrings

\* ---------------------------------------------------- violation analyzer
essentialPatterns ==
  {"session", "csrf", "xsrf", "auth", "login", "security", "lang", "language",
   "timezone", "currency", "theme", "wordpress", "wp-", "phpsessid"}

\* Object.entries(TRACKING_SERVICES), in insertion order.
TRACKING_SERVICES ==
  << [patterns |-> {"google-analytics.com", "googletagmanager.com", "gtag", "_ga", "_gid", "_gat"},
      name |-> "Google Analytics", category |-> "analytics"],
     [patterns |-> {"facebook.com/tr", "connect.facebook.net", "fbq", "_fbp", "_fbc"},
      name |-> "Facebook Pixel", category |-> "marketing"],
     [patterns |-> {"googleadservices.com", "googlesyndication.com", "_gcl_"},
      name |-> "Google Ads", category |-> "advertising"],
     [patterns |-> {"hotjar.com", "_hjid", "_hjIncludedInSample"},
      name |-> "Hotjar", category |-> "analytics"],
     [patterns |-> {"youtube.com/embed", "ytimg.com", "VISITOR_INFO1_LIVE", "YSC"},
      name |-> "YouTube Embedded", category |-> "media"] >>

\* A service matched as it would be without the two toLowerCase() calls.
ServiceMatchesCaseSensitive(service, url) ==
  \E pattern \in service.patterns : Includes(url, pattern)

\* The cookie filter as it would be without cookieName's toLowerCase().
IsEssentialCaseSensitive(name) ==
  \E pattern \in essentialPatterns : Includes(name, Lower(pattern))

IsEssential(name) ==
  \E pattern \in essentialPatterns : Includes(Lower(name), Lower(pattern))

\* service.patterns.some(pattern => request.url.toLowerCase().includes(pattern.toLowerCase()))
ServiceMatches(service, url) ==
  \E pattern \in service.patterns : Includes(Lower(url), Lower(pattern))

\* The entries one request adds to trackingRequests: one per matching service.
RequestMatches(request) ==
  LET hit(service) == ServiceMatches(service, request.url)
      entry(i) == LET sv == SelectSeq(TRACKING_SERVICES, hit)[i]
                  IN [service |-> sv.name, category |-> sv.category, url |-> request.url]
  IN [i \in 1..Len(SelectSeq(TRACKING_SERVICES, hit)) |-> entry(i)]

RECURSIVE TrackingRequests(_)
TrackingRequests(networkRequests) ==
  IF networkRequests = <<>> THEN <<>>
  ELSE RequestMatches(Head(networkRequests)) \o TrackingRequests(Tail(networkRequests))

\* result.trackingServices: a service is pushed at its first match only.
RECURSIVE TrackingServices(_, _)
TrackingServices(trackingRequests, acc) ==
  IF trackingRequests = <<>> THEN acc
  ELSE LET t == Head(trackingRequests)
       IN TrackingServices(Tail(trackingRequests),
            IF \E i \in 1..Len(acc) : acc[i].name = t.service
            THEN acc
            ELSE Append(acc, [name |-> t.service, category |-> t.category, detected |-> TRUE]))

Max(x, y) == IF x >= y THEN x ELSE y

\* results.checks?.preConsentViolations?.trackingServices || []
thirdPartyServices(checks) ==
  IF "preConsentViolations" \in DOMAIN checks
     /\ "trackingServices" \in DOMAIN checks["preConsentViolations"]
  THEN checks["preConsentViolations"].trackingServices
  ELSE <<>>

checkPreConsentViolations(cookies, networkRequests) ==
  LET problematicCookies == {c \in cookies : ~IsEssential(c.name)}
      trackingRequests == TrackingRequests(networkRequests)
      cookieViolation ==
        IF Cardinality(problematicCookies) > 0
        THEN << [type |-> "pre-consent-cookies", severity |-> "HIGH",
                 details |-> Cardinality(problematicCookies)] >>
        ELSE <<>>
      trackingViolation ==
        IF Len(trackingRequests) > 0
        THEN << [type |-> "tracking-requests", severity |-> "HIGH",
                 details |-> Len(trackingRequests)] >>
        ELSE <<>>
      found == Cardinality(problematicCookies) > 0 \/ Len(trackingRequests) > 0
      penalty == Cardinality(problematicCookies) * 15 + Len(trackingRequests) * 10
  IN [found |-> found,
      violations |-> cookieViolation \o trackingViolation,
      score |-> IF found THEN Max(0, 100 - penalty) ELSE 100,
      totalCookies |-> Cardinality(cookies),
      trackingServices |-> TrackingServices(trackingRequests, <<>>)]

\* ------------------------------------------------------------------ scorer
\* The weights the README documents (Cookie Banner 30%, Privacy Policy 25%,
\* Cookie Policy 20%, Contact Information 15%, Cookies Analysis 10%), which
\* give pre-consent violations no weight.
readmeWeights ==
  [cookieBanner |-> 30, privacyPolicy |-> 25, cookiePolicy |-> 20,
   contactInfo |-> 15, cookies |-> 10, preConsentViolations |-> 0]

\* calculateScore's weights, in hundredths.
weights ==
  [cookieBanner |-> 20, privacyPolicy |-> 20, cookiePolicy |-> 15,
   contactInfo |-> 10, cookies |-> 10, preConsentViolations |-> 25]

Dimensions == DOMAIN weights

\* checks[key] && typeof checks[key].score === 'number'
HasScore(checks, key) == key \in DOMAIN checks /\ "score" \in DOMAIN checks[key]

\* What one pass of the loop over Object.entries(weights) adds to totalScore.
Weighted(checks, key) ==
  IF HasScore(checks, key) THEN checks[key].score * weights[key] ELSE 0

\* totalScore after the loop, in hundredths.
TotalScore(checks) ==
  Weighted(checks, "cookieBanner") + Weighted(checks, "privacyPolicy")
  + Weighted(checks, "cookiePolicy") + Weighted(checks, "contactInfo")
  + Weighted(checks, "cookies") + Weighted(checks, "preConsentViolations")

\* Math.round of the sum: the scores the detectors produce are multiples of
\* 5, for which the double-precision sum rounds as the exact one does
\* (halves go up).
calculateScore(checks) == (TotalScore(checks) + 50) \div 100

\* ------------------------------------------------- recommendation engine
\* checks.x?.found
Found(checks, key) ==
  key \in DOMAIN checks /\ "found" \in DOMAIN checks[key] /\ checks[key].found

\* generateRecommendations as it would be if it went through the checks in
\* the order of the report and handled the violations last.
generateRecommendationsInCheckOrder(checks) ==
  (IF ~Found(checks, "cookieBanner")
   THEN <<[priority |-> "HIGH", message |-> "Pridajte cookie banner"]>> ELSE <<>>)
  \o (IF ~Found(checks, "privacyPolicy")
      THEN <<[priority |-> "HIGH", message |-> "Vytvorte zasady ochrany osobnych udajov"]>> ELSE <<>>)
  \o (IF ~Found(checks, "cookiePolicy")
      THEN <<[priority |-> "MEDIUM", message |-> "Pridajte zasady pouzivania cookies"]>> ELSE <<>>)
  \o (IF ~Found(checks, "contactInfo")
      THEN <<[priority |-> "MEDIUM", message |-> "Zverejnite kontaktne udaje"]>> ELSE <<>>)
  \o (IF "cookies" \in DOMAIN checks /\ "count" \in DOMAIN checks["cookies"]
         /\ checks["cookies"].count > 10
      THEN <<[priority |-> "MEDIUM", message |-> "Zvazte znizenie poctu cookies"]>> ELSE <<>>)
  \o (IF Found(checks, "preConsentViolations")
      THEN [i \in 1..Len(checks["preConsentViolations"].violations) |->
              [priority |-> "CRITICAL",
               message |-> checks["preConsentViolations"].violations[i].type]]
      ELSE <<>>)

generateRecommendations(checks) ==
  (IF Found(checks, "preConsentViolations")
   THEN [i \in 1..Len(checks["preConsentViolations"].violations) |->
           [priority |-> "CRITICAL",
            message |-> checks["preConsentViolations"].violations[i].type]]
   ELSE <<>>)
  \o (IF ~Found(checks, "cookieBanner")
      THEN <<[priority |-> "HIGH", message |-> "Pridajte cookie banner"]>> ELSE <<>>)
  \o (IF ~Found(checks, "privacyPolicy")
      THEN <<[priority |-> "HIGH", message |-> "Vytvorte zasady ochrany osobnych udajov"]>> ELSE <<>>)
  \o (IF ~Found(checks, "cookiePolicy")
      THEN <<[priority |-> "MEDIUM", message |-> "Pridajte zasady pouzivania cookies"]>> ELSE <<>>)
  \o (IF ~Found(checks, "contactInfo")
      THEN <<[priority |-> "MEDIUM", message |-> "Zverejnite kontaktne udaje"]>> ELSE <<>>)
  \o (IF "cookies" \in DOMAIN checks /\ "count" \in DOMAIN checks["cookies"]
         /\ checks["cookies"].count > 10
      THEN <<[priority |-> "MEDIUM", message |-> "Zvazte znizenie poctu cookies"]>> ELSE <<>>)

\* ------------------------------------------------------------- checkUrl
\* The error report as it would be with a fixed text in its recommendation
\* in place of the error's message.
errorReportFixedText(r, error) ==
  [url |-> r.url, error |-> error.message, checks |-> <<>>, score |-> 0,
   recommendations |->
     << [priority |-> "ERROR", message |-> <<"Chyba pri kontrole: ", "Unknown error occurred">>] >>,
   debug |-> [failed |-> TRUE, retryCount |-> r.retryCount, error |-> error.message]]

\* The report of an attempt that failed with no retry left.
errorReport(r, error) ==
  [url |-> r.url, error |-> error.message, checks |-> <<>>, score |-> 0,
   recommendations |->
     << [priority |-> "ERROR", message |-> <<"Chyba pri kontrole: ", error.message>>] >>,
   debug |-> [failed |-> TRUE, retryCount |-> r.retryCount, error |-> error.message]]

\* The catch block of checkUrl as it would be if it compared the retry count
\* with `<=`: one attempt more.
CatchOnceMore(r, error) ==
  IF r.retryCount <= maxRetries
  THEN [IdleAudit EXCEPT !.pc = "delay", !.url = r.url, !.retryCount = r.retryCount,
                         !.failed = r.failed + 1]
  ELSE [IdleAudit EXCEPT !.pc = "done", !.url = r.url, !.retryCount = r.retryCount,
                         !.failed = r.failed + 1,
                         !.error = error, !.report = errorReport(r, error)]

\* The catch block of checkUrl: nothing is done to the page; a retry waits
\* for its delay (no local of the failed attempt is read again, so none is
\* kept), and the last attempt returns the error report.
Catch(r, error) ==
  IF r.retryCount < maxRetries
  THEN [IdleAudit EXCEPT !.pc = "delay", !.url = r.url, !.retryCount = r.retryCount,
                         !.failed = r.failed + 1]
  ELSE [IdleAudit EXCEPT !.pc = "done", !.url = r.url, !.retryCount = r.retryCount,
                         !.failed = r.failed + 1,
                         !.error = error, !.report = errorReport(r, error)]

\* checkUrl as it would be if initBrowser were awaited before the URL is
\* validated.
EnterBrowserFirst(r) ==
  IF browser = 0
  THEN [r EXCEPT !.pc = "launch"]
  ELSE [r EXCEPT !.pc = "newPage", !.browser = browser]

\* checkUrl up to its first await: the URL is validated, and initBrowser
\* either returns this.browser or starts puppeteer.launch.
Enter(r) ==
  LET urlObj == ParseUrl(r.url)
  IN IF ~urlObj.ok
     THEN Catch(r, Error("Invalid URL", r))
     ELSE IF urlObj.protocol \notin {"http:", "https:"}
     THEN Catch(r, Error("Only HTTP and HTTPS URLs are supported", r))
     ELSE IF browser = 0
     THEN [r EXCEPT !.pc = "launch"]
     ELSE [r EXCEPT !.pc = "newPage", !.browser = browser]

\* An operation of the browser fails: because its browser process is gone,
\* or as one of the failures the environment may produce.
Fails(gone) ==
  IF gone THEN faults' = faults ELSE faults > 0 /\ faults' = faults - 1

Gone(p) == pages[p].browser \notin running

\* The URL validation of POST /api/check: new URL(url) does not throw and
\* the protocol is http: or https:.
HttpUrl(u) == ParseUrl(u).ok /\ ParseUrl(u).protocol \in {"http:", "https:"}

\* POST /api/check: a URL that fails the validation is answered with status
\* 400; for any other, checker.checkUrl(url) is called.
Start(a) ==
  /\ aud[a].pc = "idle"
  /\ \A b \in Audits : b < a => aud[b].pc # "idle"
  /\ inbox # <<>>
  /\ inbox' = Tail(inbox)
  /\ aud' = [aud EXCEPT ![a] =
               IF HttpUrl(Head(inbox))
               THEN Enter([IdleAudit EXCEPT !.url = Head(inbox)])
               ELSE IdleAudit]
  /\ UNCHANGED <<closers, calc, web, faults, events, browser, launched, running, pages, jar>>

\* checker.checkUrl(url) called with a URL that no route has validated.
Call(a) ==
  /\ aud[a].pc = "idle"
  /\ \A b \in Audits : b < a => aud[b].pc # "idle"
  /\ inbox # <<>>
  /\ inbox' = Tail(inbox)
  /\ aud' = [aud EXCEPT ![a] = Enter([IdleAudit EXCEPT !.url = Head(inbox)])]
  /\ UNCHANGED <<closers, calc, web, faults, events, browser, launched, running, pages, jar>>

\* puppeteer.launch resolves: initBrowser stores the handle and returns it,
\* and checkUrl calls browser.newPage().
LaunchOk(a) ==
  /\ aud[a].pc = "launch"
  /\ launched' = launched + 1
  /\ running' = running \cup {launched + 1}
  /\ browser' = launched + 1
  /\ aud' = [aud EXCEPT ![a].pc = "newPage", ![a].browser = launched + 1]
  /\ UNCHANGED <<closers, calc, inbox, web, faults, events, pages, jar>>

\* puppeteer.launch rejects: initBrowser throws.
LaunchFail(a) ==
  /\ aud[a].pc = "launch"
  /\ Fails(FALSE)
  /\ aud' = [aud EXCEPT ![a] = Catch(@, Error("Browser initialization failed", @))]
  /\ UNCHANGED <<closers, calc, inbox, web, events, browser, launched, running, pages, jar>>

\* browser.newPage() resolves; the page's timeouts, user agent and viewport
\* are being set.
NewPageOk(a) ==
  /\ aud[a].pc = "newPage"
  /\ aud[a].browser \in running
  /\ pages' = Append(pages, [owner |-> a, attempt |-> aud[a].retryCount + 1,
                             browser |-> aud[a].browser,
                             host |-> ParseUrl(aud[a].url).hostname,
                             navigated |-> FALSE])
  /\ aud' = [aud EXCEPT ![a].pc = "setup", ![a].page = Len(pages) + 1]
  /\ UNCHANGED <<closers, calc, inbox, web, faults, events, browser, launched, running, jar>>

\* browser.newPage() rejects.
NewPageFail(a) ==
  /\ aud[a].pc = "newPage"
  /\ Fails(aud[a].browser \notin running)
  /\ aud' = [aud EXCEPT ![a] = Catch(@, Error("newPage failed", @))]
  /\ UNCHANGED <<closers, calc, inbox, web, events, browser, launched, running, pages, jar>>

\* The page is set up: fresh networkRequests and cookies arrays, the two
\* listeners, and page.goto(url) is called.
SetupOk(a) ==
  /\ aud[a].pc = "setup"
  /\ ~Gone(aud[a].page)
  /\ pages' = [pages EXCEPT ![aud[a].page].navigated = TRUE]
  /\ aud' = [aud EXCEPT ![a].pc = "goto",
                        ![a].networkRequests = <<>>, ![a].cookies = <<>>]
  /\ UNCHANGED <<closers, calc, inbox, web, faults, events, browser, launched, running, jar>>

\* page.setUserAgent or page.setViewport rejects.
SetupFail(a) ==
  /\ aud[a].pc = "setup"
  /\ Fails(Gone(aud[a].page))
  /\ aud' = [aud EXCEPT ![a] = Catch(@, Error("page setup failed", @))]
  /\ UNCHANGED <<closers, calc, inbox, web, events, browser, launched, running, pages, jar>>

\* The ways page.goto fails the attempt: it throws, it resolves with no
\* response, or with a response of status >= 400.
GotoFailures ==
  { [throws |-> TRUE,  response |-> FALSE, status |-> 0],
    [throws |-> FALSE, response |-> FALSE, status |-> 0],
    [throws |-> FALSE, response |-> TRUE,  status |-> 404] }

\* What checkUrl does with the outcome o of page.goto.
afterGoto(r, o) ==
  IF o.throws THEN Catch(r, Error("Navigation failed", r))
  ELSE IF ~o.response THEN Catch(r, Error("No response received from the page", r))
  ELSE IF o.status >= 400 THEN Catch(r, Error("HTTP 404: Not Found", r))
  ELSE [r EXCEPT !.pc = "settle"]

\* page.goto resolves with a response of status 200: the settle delay of
\* 3000 ms starts.
GotoOk(a) ==
  /\ aud[a].pc = "goto"
  /\ ~Gone(aud[a].page)
  /\ aud' = [aud EXCEPT ![a] =
               afterGoto(@, [throws |-> FALSE, response |-> TRUE, status |-> 200])]
  /\ UNCHANGED <<closers, calc, inbox, web, faults, events, browser, launched, running, pages, jar>>

GotoFail(a) ==
  /\ aud[a].pc = "goto"
  /\ Fails(Gone(aud[a].page))
  /\ \E o \in GotoFailures : aud' = [aud EXCEPT ![a] = afterGoto(@, o)]
  /\ UNCHANGED <<closers, calc, inbox, web, events, browser, launched, running, pages, jar>>

\* The settle delay ends: the results object is initialised (debug counts
\* the requests logged so far) and page.content() is called.
Settled(a) ==
  /\ aud[a].pc = "settle"
  /\ aud' = [aud EXCEPT ![a].pc = "content",
               ![a].results =
                 [url |-> aud[a].url, checks |-> <<>>, score |-> 0,
                  recommendations |-> <<>>,
                  debug |-> [networkRequests |-> Len(aud[a].networkRequests),
                             retryCount |-> aud[a].retryCount]]]
  /\ UNCHANGED <<closers, calc, inbox, web, faults, events, browser, launched, running, pages, jar>>

\* page.content() resolves, and page.cookies() is called.
ContentOk(a) ==
  /\ aud[a].pc = "content"
  /\ ~Gone(aud[a].page)
  /\ \E dom \in Documents(pages[aud[a].page].host) :
       aud' = [aud EXCEPT ![a].pc = "pageCookies", ![a].content = dom]
  /\ UNCHANGED <<closers, calc, inbox, web, faults, events, browser, launched, running, pages, jar>>

\* page.content() rejects.
ContentFail(a) ==
  /\ aud[a].pc = "content"
  /\ Fails(Gone(aud[a].page))
  /\ aud' = [aud EXCEPT ![a] = Catch(@, Error("page.content failed", @))]
  /\ UNCHANGED <<closers, calc, inbox, web, events, browser, launched, running, pages, jar>>

\* page.cookies(): the cookies the browser process stores for the page's URL.
PageCookies(p) == {c \in jar[pages[p].browser] : c.host = pages[p].host}

ContentDetectors == {"cookieBanner", "privacyPolicy", "cookiePolicy", "contactInfo"}

\* The part of the document each content detector queries.
Part(key) ==
  CASE key = "cookieBanner"  -> "banner"
    [] key = "privacyPolicy" -> "privacy"
    [] key = "cookiePolicy"  -> "cookiePolicy"
    [] key = "contactInfo"   -> "contact"

\* The content detectors as they would be if one that threw left no entry
\* in `checks`.
contentChecksSkipping(dom) ==
  [key \in {k \in ContentDetectors : ~Threw(dom[Part(k)])} |->
     CASE key = "cookieBanner"  -> checkCookieBanner(dom)
       [] key = "privacyPolicy" -> checkPrivacyPolicy(dom)
       [] key = "cookiePolicy"  -> checkCookiePolicy(dom)
       [] key = "contactInfo"   -> checkContactInfo(dom)]

\* The four content detectors on the document. Each returns a result: what
\* its query throws is caught inside it, so the catch around its call in
\* checkUrl is never entered.
contentChecks(dom) ==
  [cookieBanner  |-> checkCookieBanner(dom),
   privacyPolicy |-> checkPrivacyPolicy(dom),
   cookiePolicy  |-> checkCookiePolicy(dom),
   contactInfo   |-> checkContactInfo(dom)]

\* page.cookies() resolves. The four content detectors run, then checkSSL
\* is called: it returns at once for a URL that is not HTTPS, and
\* checkCookies is called; for HTTPS it waits for the TLS connection.
PreConsentCookiesOk(a) ==
  /\ aud[a].pc = "pageCookies"
  /\ ~Gone(aud[a].page)
  /\ LET https == ParseUrl(aud[a].url).protocol = "https:"
         checks == contentChecks(aud[a].content)
     IN aud' = [aud EXCEPT
                  ![a].preConsentCookies = PageCookies(aud[a].page),
                  ![a].thrown = {k \in ContentDetectors : Threw(aud[a].content[Part(k)])},
                  ![a].pc = IF https THEN "ssl" ELSE "checkCookies",
                  ![a].results.checks =
                     IF https THEN checks
                     ELSE checks @@ ("ssl" :> checkSSL(aud[a].url, NoConnection, Now))]
  /\ UNCHANGED <<closers, calc, inbox, web, faults, events, browser, launched, running, pages, jar>>

\* page.cookies() rejects.
PreConsentCookiesFail(a) ==
  /\ aud[a].pc = "pageCookies"
  /\ Fails(Gone(aud[a].page))
  /\ aud' = [aud EXCEPT ![a] = Catch(@, Error("page.cookies failed", @))]
  /\ UNCHANGED <<closers, calc, inbox, web, events, browser, launched, running, pages, jar>>

\* The TLS connection of checkSSL ends; checkCookies is called.
Ssl(a) ==
  /\ aud[a].pc = "ssl"
  /\ \E tls \in Certificates(ParseUrl(aud[a].url).hostname) :
       aud' = [aud EXCEPT ![a].pc = "checkCookies", ![a].connection = tls,
                 ![a].results.checks = @ @@ ("ssl" :> checkSSL(aud[a].url, tls, Now))]
  /\ UNCHANGED <<closers, calc, inbox, web, faults, events, browser, launched, running, pages, jar>>

\* The results object checkUrl returns, from the checks made.
finish(results, checks, trackingServices) ==
  [url |-> results.url,
   checks |-> checks,
   thirdPartyServices |-> trackingServices,
   score |-> calculateScore(checks),
   recommendations |-> generateRecommendations(checks),
   debug |-> results.debug]

\* checkUrl from the end of checkCookies' page.cookies() to its return:
\* checkPreConsentViolations, calculateScore and generateRecommendations.
\* (Each intermediate value is computed once and named.)
Return(a, ok) ==
  \E cookiesCheck \in {checkCookies(ok, PageCookies(aud[a].page))} :
  \E preConsent \in {checkPreConsentViolations(aud[a].preConsentCookies,
                                               aud[a].networkRequests)} :
  \E checks \in {aud[a].results.checks @@ ("cookies" :> cookiesCheck)
                                       @@ ("preConsentViolations" :> preConsent)} :
    aud' = [aud EXCEPT ![a].pc = "done",
                       ![a].thrown = IF ok THEN @ ELSE @ \cup {"cookies"},
                       ![a].report = finish(aud[a].results, checks,
                                            thirdPartyServices(checks))]

\* The page.cookies() of checkCookies resolves.
CheckCookiesOk(a) ==
  /\ aud[a].pc = "checkCookies"
  /\ ~Gone(aud[a].page)
  /\ Return(a, TRUE)
  /\ UNCHANGED <<closers, calc, inbox, web, faults, events, browser, launched, running, pages, jar>>

\* The page.cookies() of checkCookies rejects: caught inside checkCookies.
CheckCookiesFail(a) ==
  /\ aud[a].pc = "checkCookies"
  /\ Fails(Gone(aud[a].page))
  /\ Return(a, FALSE)
  /\ UNCHANGED <<closers, calc, inbox, web, events, browser, launched, running, pages, jar>>

\* The retry delay ends: checkUrl(url, retryCount + 1), with fresh locals.
Retry(a) ==
  /\ aud[a].pc = "delay"
  /\ aud' = [aud EXCEPT ![a] =
               Enter([IdleAudit EXCEPT !.url = aud[a].url,
                                       !.retryCount = aud[a].retryCount + 1,
                                       !.failed = aud[a].failed])]
  /\ UNCHANGED <<closers, calc, inbox, web, faults, events, browser, launched, running, pages, jar>>

\* POST /api/check sends the report; the request is over.
Respond(a) ==
  /\ aud[a].pc = "done"
  /\ aud' = [aud EXCEPT ![a] = IdleAudit]
  /\ UNCHANGED <<closers, calc, inbox, web, faults, events, browser, launched, running, pages, jar>>

\* ------------------------------------------------------------ page events
\* The receivers as they would be if the two arrays were fields of the one
\* GDPRChecker instance: every invocation that is listening.
ReceiversShared(p) ==
  {a \in Audits :
     aud[a].pc \in {"goto", "settle", "content", "pageCookies", "ssl", "checkCookies"}}

\* The invocations whose arrays the listeners of page p append to: the
\* attempt that opened p, while it runs.
Receivers(p) ==
  {a \in Audits : aud[a].page = p
       /\ aud[a].pc \in {"goto", "settle", "content", "pageCookies", "ssl", "checkCookies"}}

LivePage(p) == pages[p].navigated /\ ~Gone(p)

\* page.on('request'): page p sends a request.
RequestEvent(p) ==
  /\ LivePage(p)
  /\ Receivers(p) # {}
  /\ events > 0
  /\ events' = events - 1
  /\ \E u \in Site[pages[p].host].requests :
       aud' = [a \in Audits |->
                 IF a \in Receivers(p)
                 THEN [aud[a] EXCEPT !.networkRequests =
                         Append(@, [url |-> u, type |-> "xhr", page |-> p])]
                 ELSE aud[a]]
  /\ UNCHANGED <<closers, calc, inbox, web, faults, browser, launched, running, pages, jar>>

\* page.on('response'): page p receives a response of its site with a
\* Set-Cookie header; the browser process stores the cookie.
ResponseEvent(p) ==
  /\ LivePage(p)
  /\ events > 0
  /\ events' = events - 1
  /\ \E name \in Site[pages[p].host].setCookie :
       /\ jar' = [jar EXCEPT ![pages[p].browser] =
                    @ \cup {[host |-> pages[p].host, name |-> name]}]
       /\ aud' = [a \in Audits |->
                    IF a \in Receivers(p)
                    THEN [aud[a] EXCEPT !.cookies =
                            Append(@, [url |-> pages[p].host, cookies |-> name, page |-> p])]
                    ELSE aud[a]]
  /\ UNCHANGED <<closers, calc, inbox, web, faults, browser, launched, running, pages>>

\* ------------------------------------------------------------- shutdown
\* The checker.close() invocations that may be in flight together: the
\* handlers of SIGTERM and of SIGINT each call gracefulShutdown.
Closers == {1, 2}

\* The locals of one close() invocation: the browser it is closing.
IdleCloser == [pc |-> "idle", browser |-> 0]

\* close() as it would be with `this.browser = null` inside the try block,
\* after the await: a failed browser.close() keeps the handle.
afterCloseInsideTry(ok, current) ==
  [pc |-> "returned", handle |-> IF ok THEN 0 ELSE current]

\* close() after its await: the catch block logs what browser.close() threw,
\* and this.browser = null follows the try statement either way; nothing is
\* thrown on.
afterClose(ok, current) == [pc |-> "returned", handle |-> 0]

\* close() is called: with no browser it returns at once; else it calls
\* this.browser.close().
CloseStart(c) ==
  /\ closers[c].pc = "idle"
  /\ closers' = [closers EXCEPT ![c] =
                   IF browser = 0 THEN [pc |-> "returned", browser |-> 0]
                   ELSE [pc |-> "closing", browser |-> browser]]
  /\ UNCHANGED <<calc, inbox, web, faults, events, browser, launched, running, pages, jar, aud>>

\* The browser process that is being closed ends, and its pages with it.
BrowserExits(c) ==
  /\ closers[c].pc = "closing"
  /\ closers[c].browser \in running
  /\ running' = running \ {closers[c].browser}
  /\ UNCHANGED <<closers, calc, inbox, web, faults, events, browser, launched, pages, jar, aud>>

\* browser.close() resolves: the process has ended.
CloseOk(c) ==
  /\ closers[c].pc = "closing"
  /\ closers[c].browser \notin running
  /\ closers' = [closers EXCEPT ![c].pc = afterClose(TRUE, browser).pc]
  /\ browser' = afterClose(TRUE, browser).handle
  /\ UNCHANGED <<calc, inbox, web, faults, events, launched, running, pages, jar, aud>>

\* browser.close() rejects: the process could not be closed, or it had
\* ended already (closed by the other invocation).
CloseFail(c) ==
  /\ closers[c].pc = "closing"
  /\ Fails(closers[c].browser \notin running)
  /\ closers' = [closers EXCEPT ![c].pc = afterClose(FALSE, browser).pc]
  /\ browser' = afterClose(FALSE, browser).handle
  /\ UNCHANGED <<calc, inbox, web, events, launched, running, pages, jar, aud>>

\* -------------------------------------------------------- specifications
\* Handles of the browser processes a run may launch: every attempt of every
\* request may launch one.
Handles == 1..(2 * (maxRetries + 1))

InitShared ==
  /\ browser = 0
  /\ launched = 0
  /\ running = {}
  /\ pages = <<>>
  /\ jar = [b \in Handles |-> {}]
  /\ aud = [a \in Audits |-> IdleAudit]
  /\ closers = [c \in Closers |-> IdleCloser]

\* No call of calculateScore on its own.
NoCall == [checks |-> <<>>, score |-> -1]

\* Two requests for the same site, whose document no detector chokes on and
\* whose certificate is valid.
Init ==
  /\ inbox = <<"https://shop.example/", "https://shop.example/">>
  /\ web = "plain"
  /\ faults = SharedFaults
  /\ events = SharedEvents
  /\ InitShared
  /\ calc = NoCall

\* One request, for any URL, to a site that may serve any document and end
\* the TLS connection in any way.
InitSolo ==
  /\ inbox \in {<<url>> : url \in Urls}
  /\ web = "any"
  /\ faults = SoloFaults
  /\ events = SoloEvents
  /\ InitShared
  /\ calc = NoCall

\* The steps of checkUrl after its call, and what the pages emit.
Steps ==
  \/ \E a \in Audits :
       \/ LaunchOk(a) \/ LaunchFail(a) \/ NewPageOk(a) \/ NewPageFail(a)
       \/ SetupOk(a) \/ SetupFail(a) \/ GotoOk(a) \/ GotoFail(a) \/ Settled(a)
       \/ ContentOk(a) \/ ContentFail(a)
       \/ PreConsentCookiesOk(a) \/ PreConsentCookiesFail(a) \/ Ssl(a)
       \/ CheckCookiesOk(a) \/ CheckCookiesFail(a) \/ Retry(a) \/ Respond(a)
  \/ \E p \in 1..Len(pages) : RequestEvent(p) \/ ResponseEvent(p)

Next ==
  \/ \E a \in Audits : Start(a)
  \/ Steps

Spec == Init /\ [][Next]_vars
SpecSolo == InitSolo /\ [][Next]_vars

\* checkUrl called on its own, once, with any URL (valid or not).
NextDirect ==
  \/ \E a \in Audits : Call(a)
  \/ Steps

SpecDirect == InitSolo /\ [][NextDirect]_vars

\* The server with one request and the two shutdown signals. (The
\* process.exit(0) that follows close() in gracefulShutdown only cuts a
\* behaviour short; it is left out, so that what a checker does after
\* close() is seen.)
InitClose ==
  /\ inbox = <<"https://shop.example/">>
  /\ web = "plain"
  /\ faults = CloseFaults
  /\ events = CloseEvents
  /\ InitShared
  /\ calc = NoCall

NextClose ==
  \/ Next
  \/ \E c \in Closers : CloseStart(c) \/ BrowserExits(c) \/ CloseOk(c) \/ CloseFail(c)

SpecClose == InitClose /\ [][NextClose]_vars

\* calculateScore as a function of its argument alone. An entry of checks
\* holds a numeric score, or no numeric score (as the ssl result), or the
\* key is absent.
ScoreValues == {0, 50, 80, 100}
Entries == {[score |-> n] : n \in ScoreValues} \cup {[valid |-> FALSE]}
ScoreInputs ==
  UNION { [keys -> Entries] : keys \in SUBSET (Dimensions \cup {"ssl"}) }

InitScore ==
  /\ inbox = <<>>
  /\ web = "plain"
  /\ faults = 0
  /\ events = 0
  /\ InitShared
  /\ calc \in {[checks |-> checks, score |-> -1] : checks \in ScoreInputs}

\* calculateScore(checks) is called and returns.
Score ==
  /\ calc.score = -1
  /\ calc.checks \in ScoreInputs
  /\ calc' = [calc EXCEPT !.score = calculateScore(calc.checks)]
  /\ UNCHANGED <<inbox, web, faults, events, browser, launched, running, pages, jar, aud, closers>>

SpecScore == InitScore /\ [][Score]_vars

\* checkPreConsentViolations as a function of its arguments alone: the
\* cookies page.cookies() returned and the requests the listener captured.
\* Among the URLs: one no service matches, one a service matches in upper
\* case only, and one that matches two services (a Facebook Pixel request
\* that carries the page's URL with a _ga parameter).
MaxRequests == 3
CookieNames == {"_ga", "_gid", "_fbp", "session_id", "PHPSESSID"}
RequestUrls ==
  {"https://www.google-analytics.com/collect",
   "http://blog.example/app.js",
   "https://cdn.example/GTAG/js",
   "https://www.facebook.com/tr/?id=1&dl=https://shop.example/?_ga=2.1"}
CapturedRequests ==
  UNION { [1..n -> {[url |-> u, type |-> "xhr", page |-> 0] : u \in RequestUrls}] :
            n \in 0..MaxRequests }
CookieSets == SUBSET {[host |-> "shop.example", name |-> n] : n \in CookieNames}

InitAnalyzer ==
  /\ inbox = <<>>
  /\ web = "plain"
  /\ faults = 0
  /\ events = 0
  /\ InitShared
  /\ calc \in {[cookies |-> c, networkRequests |-> n, returned |-> FALSE, result |-> <<>>,
                 thirdPartyServices |-> <<>>] :
                 c \in CookieSets, n \in CapturedRequests}

\* checkPreConsentViolations(cookies, networkRequests) is called and returns,
\* and thirdPartyServices is set from its result as checkUrl sets it.
Analyze ==
  /\ ~calc.returned
  /\ \E result \in {checkPreConsentViolations(calc.cookies, calc.networkRequests)} :
       calc' = [calc EXCEPT !.returned = TRUE,
                            !.result = result,
                            !.thirdPartyServices =
                               thirdPartyServices([preConsentViolations |-> result])]
  /\ UNCHANGED <<inbox, web, faults, events, browser, launched, running, pages, jar, aud, closers>>

SpecAnalyzer == InitAnalyzer /\ [][Analyze]_vars

\* generateRecommendations as a function of its argument alone. Each content
\* dimension is found, not found or absent; the cookies result has a count
\* (or none, or is absent); the preConsentViolations result is one the
\* analyzer returns (no violation, either type, or both in its order), the
\* fallback without violations, or absent.
FoundEntries == {[found |-> f] : f \in BOOLEAN}
CountEntries == {[count |-> n] : n \in {0, 10, 11}} \cup {[score |-> 50]}
Violation(type) == [type |-> type, severity |-> "HIGH", details |-> 1]
ViolationEntries ==
  {[found |-> v # <<>>, violations |-> v] :
     v \in {<<>>, <<Violation("pre-consent-cookies")>>, <<Violation("tracking-requests")>>,
            <<Violation("pre-consent-cookies"), Violation("tracking-requests")>>}}
  \cup {[found |-> FALSE, score |-> 50]}
RecommendInputs ==
  {content @@ count @@ violations :
     content \in UNION {[keys -> FoundEntries] : keys \in SUBSET ContentDetectors},
     count \in UNION {[keys -> CountEntries] : keys \in SUBSET {"cookies"}},
     violations \in UNION {[keys -> ViolationEntries] :
                              keys \in SUBSET {"preConsentViolations"}}}

InitRecommend ==
  /\ inbox = <<>>
  /\ web = "plain"
  /\ faults = 0
  /\ events = 0
  /\ InitShared
  /\ calc \in {[checks |-> c, returned |-> FALSE, result |-> <<>>] :
                 c \in RecommendInputs}

\* generateRecommendations(checks) is called and returns.
Recommend ==
  /\ ~calc.returned
  /\ calc' = [calc EXCEPT !.returned = TRUE,
                          !.result = generateRecommendations(calc.checks)]
  /\ UNCHANGED <<inbox, web, faults, events, browser, launched, running, pages, jar, aud, closers>>

SpecRecommend == InitRecommend /\ [][Recommend]_vars

\* ---------------------------------------------------------------- backoff
\* The largest retry ceiling the backoff is followed to.
MaxCeiling == 13

\* 3000 * (retryCount + 1): the milliseconds the catch block waits before
\* the retry that follows the failed attempt number retryCount + 1.
backoff(retryCount) == 3000 * (retryCount + 1)

\* An audit all of whose attempts fail, under a retry ceiling from the
\* constructor's up to MaxCeiling: the delays it has waited so far.
InitBackoff ==
  /\ inbox = <<>>
  /\ web = "plain"
  /\ faults = 0
  /\ events = 0
  /\ InitShared
  /\ calc \in {[maxRetries |-> m, retryCount |-> 0, delays |-> <<>>] :
                 m \in maxRetries..MaxCeiling}

\* The retry branch of the catch block: the delay is waited and checkUrl is
\* called with retryCount + 1.
Backoff ==
  /\ calc.retryCount < calc.maxRetries
  /\ calc' = [calc EXCEPT !.delays = Append(@, backoff(calc.retryCount)),
                          !.retryCount = @ + 1]
  /\ UNCHANGED <<inbox, web, faults, events, browser, launched, running, pages, jar, aud, closers>>

SpecBackoff == InitBackoff /\ [][Backoff]_vars

\* What checkUrl awaits and is bound to settle: puppeteer.launch and
\* page.goto have a timeout of 60000 ms, the page operations end with the
\* protocol's timeout, and the delays are timers. The TLS connection of
\* checkSSL is not among them: tls.connect is given no timeout, and only the
\* handshake's end or a socket error resolves checkSSL's promise.
Settles(a) ==
  \/ LaunchOk(a) \/ LaunchFail(a) \/ NewPageOk(a) \/ NewPageFail(a)
  \/ SetupOk(a) \/ SetupFail(a) \/ GotoOk(a) \/ GotoFail(a) \/ Settled(a)
  \/ ContentOk(a) \/ ContentFail(a)
  \/ PreConsentCookiesOk(a) \/ PreConsentCookiesFail(a)
  \/ CheckCookiesOk(a) \/ CheckCookiesFail(a) \/ Retry(a)

SpecSoloFair == SpecSolo /\ WF_vars(\E a \in Audits : Settles(a))
SpecDirectFair == SpecDirect /\ WF_vars(\E a \in Audits : Settles(a))

\* ------------------------------------------------------------------ claims
Done(a) == aud[a].pc = "done"
Running(a) == aud[a].pc \notin {"idle", "done"}
IsErrorReport(report) == "error" \in DOMAIN report
Succeeded(a) == Done(a) /\ ~IsErrorReport(aud[a].report)
Listening == {"goto", "settle", "content", "pageCookies", "ssl", "checkCookies"}

\* What checkUrl hands back is a report whose score is an integer from 0 to
\* 100.
ReportWellFormed(a) ==
  Done(a) =>
    /\ {"url", "checks", "score", "recommendations", "debug"} \subseteq DOMAIN aud[a].report
    /\ aud[a].report.score \in 0..100

\* C1 as the specification states it: an audit of an http or https URL,
\* whatever the browser launch, the page creation, the navigation, the
\* content and cookie retrieval, the TLS connection and the detectors do,
\* eventually ends with a report, whose score is an integer from 0 to 100.
AuditResolves ==
  /\ [](\A a \in Audits : ReportWellFormed(a))
  /\ \A a \in Audits : (Running(a) /\ HttpUrl(aud[a].url)) ~> Done(a)

\* C2 as the specification states it: the keys of `checks` are exactly the
\* six dimensions in every report audit returns.
ChecksExactlySixDimensions ==
  \A a \in Audits : Done(a) => DOMAIN aud[a].report.checks = Dimensions

\* C2, as the code has it: the report of an attempt that ran its checks has
\* exactly seven keys in `checks`, the six dimensions and `ssl`, whichever
\* detectors threw; the error report has none.
ChecksKeys ==
  \A a \in Audits :
    Done(a) =>
      DOMAIN aud[a].report.checks =
        IF IsErrorReport(aud[a].report) THEN {} ELSE Dimensions \cup {"ssl"}

\* A report returned although two content detectors and checkCookies threw.
ChecksKeysWitness ==
  \E a \in Audits :
    /\ Succeeded(a)
    /\ {"cookieBanner", "contactInfo", "cookies"} \subseteq aud[a].thrown
    /\ Cardinality(DOMAIN aud[a].report.checks) = Cardinality(Dimensions) + 1

\* C3: with maxRetries = 2 an audit makes at most 3 attempts; a report of a
\* successful attempt carries debug.retryCount = the number of attempts that
\* failed before it; retries happen only after fewer than 3 failures, and
\* after 3 failures the audit returns an error report with score 0.
RetryCeiling ==
  /\ \A p \in 1..Len(pages) : pages[p].attempt \in 1..(maxRetries + 1)
  /\ \A a \in Audits :
       /\ aud[a].retryCount \in 0..maxRetries
       /\ aud[a].failed \in 0..(maxRetries + 1)
       /\ aud[a].pc = "delay" => aud[a].failed = aud[a].retryCount + 1
       /\ aud[a].pc \in {"launch", "newPage", "setup"} \cup Listening =>
            aud[a].failed = aud[a].retryCount
       /\ Succeeded(a) =>
            /\ aud[a].failed <= maxRetries
            /\ aud[a].report.debug.retryCount = aud[a].failed
       /\ (Done(a) /\ IsErrorReport(aud[a].report)) =>
            /\ aud[a].failed = maxRetries + 1
            /\ aud[a].report.score = 0
       /\ (Done(a) /\ aud[a].failed = maxRetries + 1) => IsErrorReport(aud[a].report)

\* Two failed attempts, then the report of the third with
\* debug.retryCount = 2.
RetryCeilingWitness ==
  \E a \in Audits :
    /\ Succeeded(a)
    /\ aud[a].failed = 2
    /\ aud[a].report.debug.retryCount = 2
    /\ Cardinality({p \in 1..Len(pages) : pages[p].owner = a}) = 3

\* C4: when every attempt has failed, checkUrl returns (does not throw) a
\* report with score 0, no key in `checks`, and exactly one recommendation,
\* of priority ERROR, whose message is that of the error of the last
\* attempt.
ErrorReportShape ==
  \A a \in Audits :
    /\ aud[a].failed = maxRetries + 1 => Done(a)
    /\ (Done(a) /\ aud[a].failed = maxRetries + 1) =>
         /\ aud[a].error.thrownIn = maxRetries + 1
         /\ aud[a].report.score = 0
         /\ DOMAIN aud[a].report.checks = {}
         /\ Len(aud[a].report.recommendations) = 1
         /\ aud[a].report.recommendations[1].priority = "ERROR"
         /\ aud[a].report.recommendations[1].message =
              <<"Chyba pri kontrole: ", aud[a].error.message>>
         /\ aud[a].report.error = aud[a].error.message

\* Three attempts failed, the last one on the HTTP status, after pages had
\* been opened.
ErrorReportShapeWitness ==
  \E a \in Audits :
    /\ Done(a)
    /\ aud[a].failed = maxRetries + 1
    /\ aud[a].report.error = "HTTP 404: Not Found"
    /\ Len(pages) >= 2

\* C5 as the specification states it: initBrowser never starts a second
\* browser process while one runs or is being launched, so at most one
\* browser process exists at any time and every audit has the same handle.
SingleBrowserProcess ==
  /\ Cardinality(running) <= 1
  /\ \A a, b \in Audits :
       (aud[a].browser # 0 /\ aud[b].browser # 0) => aud[a].browser = aud[b].browser

\* A page stays open until it is closed or its browser process ends; no
\* statement of checkUrl closes a page.
Open(p) == ~Gone(p)

\* C6 as the specification states it: when an attempt has ended, with a
\* report or with a failure that is retried, the page it opened is closed:
\* an open page is the page of an attempt that still runs.
PagesTornDown ==
  \A p \in 1..Len(pages) :
    Open(p) => \E a \in Audits : aud[a].page = p /\ Running(a) /\ aud[a].pc # "delay"

\* C7: the request log and the Set-Cookie log of an invocation hold only
\* events of the page that invocation opened, which is a page of this
\* attempt; they are empty until the attempt has set up its page.
LogsLocal ==
  \A a \in Audits :
    /\ \A i \in 1..Len(aud[a].networkRequests) : aud[a].networkRequests[i].page = aud[a].page
    /\ \A i \in 1..Len(aud[a].cookies) : aud[a].cookies[i].page = aud[a].page
    /\ aud[a].page # 0 =>
         /\ pages[aud[a].page].owner = a
         /\ pages[aud[a].page].attempt = aud[a].retryCount + 1
    /\ aud[a].pc \in {"idle", "delay", "launch", "newPage", "setup"} =>
         aud[a].networkRequests = <<>> /\ aud[a].cookies = <<>>

\* A retry attempt has logged a request of its own page while the page of
\* its failed first attempt is still live, and the other audit, running at
\* the same time, has logged a Set-Cookie response of its page.
LogsLocalWitness ==
  \E a, b \in Audits :
    /\ a # b
    /\ aud[a].retryCount = 1 /\ aud[a].pc \in Listening
    /\ Len(aud[a].networkRequests) = 1
    /\ \E p \in 1..Len(pages) : pages[p].owner = a /\ pages[p].attempt = 1 /\ LivePage(p)
    /\ aud[b].pc \in Listening
    /\ Len(aud[b].cookies) = 1

\* The cookie was set by a response the audit's own page received.
SetByOwnLoad(a, name) ==
  \E i \in 1..Len(aud[a].cookies) :
    aud[a].cookies[i].cookies = name /\ aud[a].cookies[i].page = aud[a].page

\* C8 as the specification states it: the cookies an audit's `cookies` and
\* `preConsentViolations` checks evaluate were all set during that audit's
\* own page load.
OwnCookiesOnly ==
  \A a \in Audits :
    Succeeded(a) =>
      /\ \A c \in aud[a].preConsentCookies : SetByOwnLoad(a, c.name)
      /\ \A c \in aud[a].report.checks["cookies"].cookies : SetByOwnLoad(a, c.name)
      /\ aud[a].report.checks["preConsentViolations"].totalCookies
           <= Len(aud[a].cookies)

\* C9 as the specification states it: a detector that threw leaves, for its
\* dimension, found = false, score = 0 and an error field; the attempt is
\* not failed, and the other dimensions are as they would be otherwise.
DetectorFailureIsolated ==
  \A a \in Audits :
    /\ aud[a].thrown # {} => aud[a].pc \in Listening \cup {"done"}
    /\ Succeeded(a) =>
         \A key \in aud[a].thrown :
           /\ "error" \in DOMAIN aud[a].report.checks[key]
           /\ aud[a].report.checks[key].score = 0
           /\ ~Found(aud[a].report.checks, key)

\* The sum of weight x score over the six dimensions, in hundredths: an
\* absent key and an entry without a numeric score add nothing.
Contribution(checks, key) ==
  IF key \in DOMAIN checks /\ "score" \in DOMAIN checks[key] THEN checks[key].score ELSE 0

WeightedSum(checks) ==
  20 * Contribution(checks, "cookieBanner") + 20 * Contribution(checks, "privacyPolicy")
  + 15 * Contribution(checks, "cookiePolicy") + 10 * Contribution(checks, "contactInfo")
  + 10 * Contribution(checks, "cookies") + 25 * Contribution(checks, "preConsentViolations")

\* The scores 100, 0, 80, 80, 100, 100 of the six dimensions.
ExampleScores(checks) ==
  /\ Dimensions \subseteq DOMAIN checks
  /\ \A key \in Dimensions : "score" \in DOMAIN checks[key]
  /\ checks["cookieBanner"].score = 100 /\ checks["privacyPolicy"].score = 0
  /\ checks["cookiePolicy"].score = 80 /\ checks["contactInfo"].score = 80
  /\ checks["cookies"].score = 100 /\ checks["preConsentViolations"].score = 100

MatchedRequests(networkRequests) ==
  {i \in 1..Len(networkRequests) :
     \E k \in 1..Len(TRACKING_SERVICES) :
       ServiceMatches(TRACKING_SERVICES[k], networkRequests[i].url)}

NonEssential(cookies) == {c \in cookies : ~IsEssential(c.name)}

\* C11 as the specification states it: the pre-consent score is
\* max(0, 100 - 15*c - 10*t) with c the number of non-essential cookies and
\* t the number of captured requests a service matches, each request counted
\* once; it is never negative.
PenaltyPerRequest ==
  calc.returned =>
    LET c == Cardinality(NonEssential(calc.cookies))
        t == Cardinality(MatchedRequests(calc.networkRequests))
    IN /\ calc.result.score >= 0
       /\ calc.result.score = Max(0, 100 - 15 * c - 10 * t)

Rank(priority) ==
  CASE priority = "CRITICAL" -> 3
    [] priority = "HIGH"     -> 2
    [] priority = "MEDIUM"   -> 1
    [] OTHER                 -> 0

\* The types of the violations listed in the preConsentViolations result.
ViolationTypes(checks) ==
  IF "preConsentViolations" \in DOMAIN checks
     /\ "violations" \in DOMAIN checks["preConsentViolations"]
  THEN {checks["preConsentViolations"].violations[i].type :
          i \in 1..Len(checks["preConsentViolations"].violations)}
  ELSE {}

StaleHandle == browser # 0 /\ browser \notin running

\* C13: close() never throws and is idempotent: every invocation that
\* returns, whether browser.close() resolved or rejected, whether there was a
\* browser or none, alone or overlapping another invocation, returns normally
\* and leaves this.browser cleared; and this.browser holds the handle of an
\* ended browser only while an invocation of close() is still closing it, so
\* no handle of a closed browser is left behind for a later audit.
CloseIdempotent ==
  /\ [][\A c \in Closers :
          /\ closers'[c].pc \in {"idle", "closing", "returned"}
          /\ (closers[c].pc = "closing" /\ closers'[c].pc = "returned") => browser' = 0
          /\ (closers[c].pc = "idle" /\ closers'[c].pc = "returned")
               => browser = 0 /\ browser' = 0]_vars
  /\ [](StaleHandle => \E c \in Closers :
                         closers[c].pc = "closing" /\ closers[c].browser = browser)

\* Two overlapping invocations have closed the same browser and returned,
\* and the audit that was using that browser has since launched a new one.
CloseIdempotentWitness ==
  /\ \A c \in Closers : closers[c].pc = "returned"
  /\ closers[1].browser = closers[2].browser
  /\ closers[1].browser # 0
  /\ launched > 1
  /\ browser \in running

\* The invocation of checkUrl was given a URL that is malformed or of another
\* scheme than http and https.
Invalid(a) == aud[a].url # None /\ ~HttpUrl(aud[a].url)

\* C14: checkUrl rejects a malformed URL and a URL whose scheme is neither
\* http nor https before any browser work: in every attempt of such an audit
\* the invocation only waits for a retry or has ended, no browser is
\* launched, no page is opened and nothing is navigated, what it returns is
\* the error report, and it does return it.
InvalidUrlRejected ==
  /\ [](\A a \in Audits : Invalid(a) =>
          /\ aud[a].pc \in {"delay", "done"}
          /\ aud[a].browser = 0 /\ aud[a].page = 0
          /\ launched = 0 /\ pages = <<>>
          /\ (Done(a) => IsErrorReport(aud[a].report)))
  /\ \A a \in Audits : Invalid(a) ~> (Done(a) /\ IsErrorReport(aud[a].report))

\* An invalid URL has gone through every attempt and the error report is
\* returned, with no browser launched.
InvalidUrlRejectedWitness ==
  \E a \in Audits :
    /\ Invalid(a) /\ Done(a)
    /\ aud[a].failed = maxRetries + 1
    /\ aud[a].report.error \in {"Invalid URL", "Only HTTP and HTTPS URLs are supported"}
    /\ launched = 0

\* The URL of the invocation is an HTTPS URL.
Https(a) == ParseUrl(aud[a].url).protocol = "https:"

\* The ssl result of invocation a is what the claim says of its URL and of
\* the way its TLS connection ended.
SslResultAsStated(a, ssl) ==
  LET connection == aud[a].connection
  IN /\ ssl.valid \in BOOLEAN
     /\ ~Https(a) =>
          /\ connection = NoConnection
          /\ ssl = [valid |-> FALSE, details |-> <<"Stranka nepouziva HTTPS protokol.">>]
     /\ Https(a) =>
          /\ connection.event \in {"error", "secureConnect"}
          /\ connection.event = "error" =>
               ~ssl.valid /\ ssl.details = <<"Chyba pri kontrole SSL", connection.message>>
          /\ connection.event = "secureConnect" =>
               (ssl.valid <=> /\ "valid_to" \in DOMAIN connection.cert
                              /\ connection.cert.valid_to > Now)

\* C15: checkSSL never rejects and never fails the attempt: the step that
\* awaits it always goes on to checkCookies, with no failure counted; a
\* connection is awaited only for an HTTPS URL; for a URL that is not HTTPS
\* the result is valid = false with the no-HTTPS detail and no connection;
\* for an HTTPS URL a socket error gives valid = false with a detail, and
\* otherwise valid is true exactly when the certificate's expiry is later
\* than the current time.
SslNeverFails ==
  /\ [][\A a \in Audits :
          /\ aud'[a].pc = "ssl" => ParseUrl(aud'[a].url).protocol = "https:"
          /\ (aud[a].pc = "ssl" /\ aud'[a].pc # "ssl") =>
               /\ aud'[a].pc = "checkCookies"
               /\ aud'[a].failed = aud[a].failed
               /\ "ssl" \in DOMAIN aud'[a].results.checks]_vars
  /\ [](\A a \in Audits :
          /\ aud[a].pc = "checkCookies" => SslResultAsStated(a, aud[a].results.checks["ssl"])
          /\ Succeeded(a) => SslResultAsStated(a, aud[a].report.checks["ssl"]))

\* An audit has succeeded although the certificate of its HTTPS site expires
\* at this very moment: ssl.valid is false.
SslNeverFailsWitness ==
  \E a \in Audits :
    /\ Succeeded(a) /\ Https(a)
    /\ aud[a].connection.event = "secureConnect"
    /\ "valid_to" \in DOMAIN aud[a].connection.cert
    /\ aud[a].connection.cert.valid_to = Now
    /\ ~aud[a].report.checks["ssl"].valid

\* The sum the README documents, in hundredths: cookie banner 30 %, privacy
\* policy 25 %, cookie policy 20 %, contact information 15 %, cookies
\* analysis 10 %, and nothing else.
DocumentedSum(checks) ==
  30 * Contribution(checks, "cookieBanner") + 25 * Contribution(checks, "privacyPolicy")
  + 20 * Contribution(checks, "cookiePolicy") + 15 * Contribution(checks, "contactInfo")
  + 10 * Contribution(checks, "cookies")

\* C16: the score calculateScore returns is the integer nearest to the sum
\* weighted as the README documents: 30 % cookie banner, 25 % privacy policy,
\* 20 % cookie policy, 15 % contact information, 10 % cookies analysis, these
\* five making up the whole score.
ScoreWeightedAsDocumented ==
  calc.score # -1 =>
    /\ 100 * calc.score - 50 <= DocumentedSum(calc.checks)
    /\ DocumentedSum(calc.checks) <= 100 * calc.score + 50

\* C17: the telemetry that is analysed is fixed when the settle delay ends:
\* the requests checkPreConsentViolations scanned in a successful audit are
\* the requests captured by the end of the settle delay, whose number the
\* report carries as debug.networkRequests; a request emitted later is not
\* among them.
TelemetryFixedAtSettle ==
  \A a \in Audits :
    Succeeded(a) => Len(aud[a].networkRequests) = aud[a].report.debug.networkRequests

\* The URL contains, case-insensitively, one of the patterns of service k.
UrlContains(url, k) ==
  \E pattern \in TRACKING_SERVICES[k].patterns : Includes(Lower(url), Lower(pattern))

GoogleAnalyticsCollect == "https://www.google-analytics.com/collect"

\* C18: for every sequence of captured requests, trackingServices holds a
\* service exactly when some request URL contains, case-insensitively, one
\* of its patterns; it holds it once (no two entries share a name), with the
\* service's category; the collect request of Google Analytics seen twice
\* gives the single entry "Google Analytics" / "analytics"; and
\* thirdPartyServices is the same list.
TrackingServicesDeduplicated ==
  calc.returned =>
    LET ts == calc.result.trackingServices
        requests == calc.networkRequests
    IN /\ \A k \in 1..Len(TRACKING_SERVICES) :
            (\E i \in 1..Len(ts) : ts[i].name = TRACKING_SERVICES[k].name)
            <=> (\E j \in 1..Len(requests) : UrlContains(requests[j].url, k))
       /\ \A i, j \in 1..Len(ts) : ts[i].name = ts[j].name => i = j
       /\ \A i \in 1..Len(ts) : \E k \in 1..Len(TRACKING_SERVICES) :
            /\ ts[i].name = TRACKING_SERVICES[k].name
            /\ ts[i].category = TRACKING_SERVICES[k].category
       /\ (Len(requests) = 2 /\ \A j \in 1..2 : requests[j].url = GoogleAnalyticsCollect)
            => /\ Len(ts) = 1
               /\ ts[1].name = "Google Analytics" /\ ts[1].category = "analytics"
       /\ calc.thirdPartyServices = ts

\* The collect request seen twice and an upper-case GTAG request: one entry,
\* Google Analytics, which thirdPartyServices holds too.
TrackingServicesDeduplicatedWitness ==
  /\ calc.returned
  /\ Len(calc.networkRequests) = 3
  /\ calc.networkRequests[1].url = GoogleAnalyticsCollect
  /\ calc.networkRequests[2].url = GoogleAnalyticsCollect
  /\ calc.networkRequests[3].url = "https://cdn.example/GTAG/js"
  /\ Len(calc.thirdPartyServices) = 1
  /\ calc.thirdPartyServices[1].name = "Google Analytics"

\* The lower-cased cookie name contains one of the allow-list substrings.
OnAllowList(name) ==
  \E pattern \in {"session", "csrf", "xsrf", "auth", "login", "security", "lang",
                   "language", "timezone", "currency", "theme", "wordpress", "wp-",
                   "phpsessid"} : Includes(Lower(name), pattern)

\* The violations of the given type in the result.
OfType(violations, type) == {i \in 1..Len(violations) : violations[i].type = type}

\* C19: a cookie is essential exactly when its lower-cased name contains an
\* allow-list substring (session_id is, _ga is not); found is true exactly
\* when there is a non-essential cookie or a tracking request; each
\* non-empty class gives exactly one violation of its type, of severity
\* HIGH, and an empty class none; with no non-essential cookie and no
\* tracking request found is false, violations is empty and the score is
\* 100.
ViolationsPerClass ==
  /\ \A name \in CookieNames : IsEssential(name) <=> OnAllowList(name)
  /\ IsEssential("session_id") /\ ~IsEssential("_ga")
  /\ calc.returned =>
       LET c == Cardinality({k \in calc.cookies : ~OnAllowList(k.name)})
           t == Cardinality({j \in 1..Len(calc.networkRequests) :
                               \E k \in 1..Len(TRACKING_SERVICES) :
                                 UrlContains(calc.networkRequests[j].url, k)})
           violations == calc.result.violations
       IN /\ calc.result.found <=> (c > 0 \/ t > 0)
          /\ Cardinality(OfType(violations, "pre-consent-cookies")) = IF c > 0 THEN 1 ELSE 0
          /\ Cardinality(OfType(violations, "tracking-requests")) = IF t > 0 THEN 1 ELSE 0
          /\ \A i \in 1..Len(violations) :
               /\ violations[i].type \in {"pre-consent-cookies", "tracking-requests"}
               /\ violations[i].severity = "HIGH"
          /\ (c = 0 /\ t = 0) =>
               /\ ~calc.result.found
               /\ violations = <<>>
               /\ calc.result.score = 100

\* Both classes are non-empty beside essential cookies: _ga next to
\* session_id and PHPSESSID, and a tracking request; two violations.
ViolationsPerClassWitness ==
  /\ calc.returned
  /\ {k.name : k \in calc.cookies} = {"_ga", "session_id", "PHPSESSID"}
  /\ Len(calc.networkRequests) = 1
  /\ calc.networkRequests[1].url = GoogleAnalyticsCollect
  /\ Len(calc.result.violations) = 2
  /\ calc.result.found

\* C20: the delay between consecutive attempts grows exponentially: each
\* delay is strictly greater than the one before it and is the same multiple
\* (greater than 1) of it, for every retry up to the ceiling and under any
\* larger ceiling.
BackoffExponential ==
  LET delays == calc.delays
      steps == 1..(Len(delays) - 1)
  IN /\ \A n \in steps : delays[n + 1] > delays[n]
     /\ \A n, m \in steps : delays[n + 1] * delays[m] = delays[m + 1] * delays[n]

\* C21: in every report of a successful attempt the overall score is at most
\* 95, because the cookiePolicy and contactInfo detectors never score above
\* 80: not even a page with a banner, both policies, contact information, no
\* cookies and no pre-consent violation reaches 100.
ScoreAtMost95 ==
  \A a \in Audits :
    Succeeded(a) =>
      /\ aud[a].report.score <= 95
      /\ aud[a].report.checks["cookiePolicy"].score <= 80
      /\ aud[a].report.checks["contactInfo"].score <= 80

\* The report of a page on which every detector finds its evidence, with no
\* cookie and no violation: every dimension at its highest, and the score is
\* 95.
ScoreAtMost95Witness ==
  \E a \in Audits :
    /\ Succeeded(a)
    /\ aud[a].content = FullDom
    /\ aud[a].report.checks["cookieBanner"].score = 100
    /\ aud[a].report.checks["privacyPolicy"].score = 100
    /\ aud[a].report.checks["cookiePolicy"].score = 80
    /\ aud[a].report.checks["contactInfo"].score = 80
    /\ aud[a].report.checks["cookies"].count = 0
    /\ aud[a].report.checks["cookies"].score = 100
    /\ ~aud[a].report.checks["preConsentViolations"].found
    /\ aud[a].report.score = 95

====
